---- MODULE Spec2Model ----
(***************************************************************************)
(* A model of src/app.py: the placeholder detectors, the key merge, the    *)
(* replacement engine and the session store with its HTTP handlers.        *)
(*                                                                         *)
(* Text.  A Python string is modelled as a sequence of tokens (TLA+        *)
(* strings).  The string a sequence stands for is its tokens joined by     *)
(* one space, except that no space is put next to the line-break token     *)
(* "\n"; the empty token "" stands for an empty replacement (so that       *)
(* <<"a", "", "b">> is "a  b").  Every token that holds a bracket or a     *)
(* quote holds the whole pair, so a match of one of the program's regular  *)
(* expressions never straddles two tokens and each regular expression is   *)
(* a predicate on tokens.  Character counts (the 160/120/60 character      *)
(* context windows) are computed from the tokens' real lengths.            *)
(*                                                                         *)
(* Documents.  A document is the sequence of its paragraphs in             *)
(* iter_paragraphs order; a paragraph is a record                          *)
(*   [text, runs, cell, id]: its text, its number of runs, its container   *)
(*   (0: the body, c > 0: the c-th table cell) and its identity (the       *)
(*   Python object: 1..n for the paragraphs of the parsed file, 0 for a    *)
(*   paragraph the signature pass inserts).                                *)
(*                                                                         *)
(* Answers.  The values answered are token sequences that hold no bracket  *)
(* and neither begin nor end with a line break.                            *)
(*                                                                         *)
(* Specifications.  Spec: the handlers, each request handled at once.      *)
(* SpecConc: two submit-answer requests interleaved.  SpecDetect and       *)
(* SpecRender: the detectors and the replacement engine applied to every   *)
(* document of a bounded set.                                              *)
(***************************************************************************)
EXTENDS Integers, Sequences, FiniteSets, TLC

VARIABLES
    SESSIONS,   \* src/app.py:13: session id -> session record
    created,    \* history: session id -> all_keys as computed at upload
    resp,       \* the response of the last request handled at once
    threads,    \* concurrent post_answer requests: thread -> its position and locals
    job         \* one document, the session built from it and its render

vars == <<SESSIONS, created, resp, threads, job>>

----------------------------------------------------------------------------
(* Bounds of the model *)

\* the sessions the store may hold
MaxSessions == 2
\* the tokens of a text the underscore detector is applied to
MaxToks == 4
\* the paragraphs of a document the signature detector is applied to
MaxSigParas == 4
\* the paragraphs of a document the replacement engine is applied to
MaxRenderParas == 4

----------------------------------------------------------------------------
(* Tokens *)

NL == "\n"

Fill10 == "0123456789"

\* 70 characters no regular expression of the program reacts to
FILL == Fill10 \o Fill10 \o Fill10 \o Fill10 \o Fill10 \o Fill10 \o Fill10

\* f"[{key}]" and f"[ {key} ]": the two bracket spellings of a named key
Bracket(key) == "[" \o key \o "]"

PadBracket(key) == "[ " \o key \o " ]"

\* the inner texts of the named brackets the model's documents use
NamedInner == {"A", "Max", "COMPANY"}

\* the phrases the model's documents quote
QuoteInner == {"Max", "Max (2)", " "}

Quote(x) == "\"" \o x \o "\""

TheDef(x) == "(the " \o Quote(x) \o ")"

UNDER == "[__]"

\* str.strip() of a quoted phrase
StripStr(x) == IF x = " " THEN "" ELSE x

----------------------------------------------------------------------------
(* Sequences *)

InSeq(x, s) == \E i \in 1..Len(s) : s[i] = x

Range(s) == {s[i] : i \in 1..Len(s)}

RECURSIVE Flatten(_)
Flatten(ss) == IF ss = <<>> THEN <<>> ELSE Head(ss) \o Flatten(Tail(ss))

RECURSIVE SeqsUpTo(_, _)
\* the sequences over S of length at most n
SeqsUpTo(S, n) ==
    IF n = 0 THEN {<<>>}
    ELSE LET shorter == SeqsUpTo(S, n - 1)
         IN  shorter \cup {Append(s, x) : s \in {t \in shorter : Len(t) = n - 1}, x \in S}

----------------------------------------------------------------------------
(* Strings as token sequences *)

IsWs(tok) == tok \in {"", NL}

RECURSIVE LStrip(_)
LStrip(t) == IF t # <<>> /\ IsWs(Head(t)) THEN LStrip(Tail(t)) ELSE t

RECURSIVE RStrip(_)
RStrip(t) == IF t # <<>> /\ IsWs(t[Len(t)]) THEN RStrip(SubSeq(t, 1, Len(t) - 1)) ELSE t

\* str.strip()
Strip(t) == RStrip(LStrip(t))

\* the characters between two adjacent tokens
SepLen(a, b) == IF a = NL \/ b = NL THEN 0 ELSE 1

RECURSIVE CharLen(_)
\* len() of the string a token sequence stands for
CharLen(t) ==
    IF t = <<>> THEN 0
    ELSE IF Len(t) = 1 THEN Len(t[1])
    ELSE Len(t[1]) + SepLen(t[1], t[2]) + CharLen(Tail(t))

\* len() of the text from the start of t to the start of a following match
TrailLen(t) == IF t = <<>> THEN 0 ELSE CharLen(t) + SepLen(t[Len(t)], UNDER)

\* len() of the text from the end of a preceding match to the end of t
LeadLen(t) == IF t = <<>> THEN 0 ELSE SepLen(UNDER, t[1]) + CharLen(t)

\* s[-n:] of the text before a match: the tokens that lie wholly in its last n
\* characters (a token cut by the window is FILL, see WellWindowed)
LastChars(t, n) ==
    LET ks == {k \in 0..Len(t) : TrailLen(SubSeq(t, Len(t) - k + 1, Len(t))) <= n}
        k == CHOOSE m \in ks : \A o \in ks : o <= m
    IN  SubSeq(t, Len(t) - k + 1, Len(t))

\* s[:n] of the text after a match
FirstChars(t, n) ==
    LET ks == {k \in 0..Len(t) : LeadLen(SubSeq(t, 1, k)) <= n}
        k == CHOOSE m \in ks : \A o \in ks : o <= m
    IN  SubSeq(t, 1, k)

\* A window of n characters before (after) a match cuts no token but FILL.
CutsOnlyFill(before, after, n) ==
    /\ LET w == LastChars(before, n)
       IN  Len(w) < Len(before) =>
              \/ before[Len(before) - Len(w)] = FILL
              \/ TrailLen(SubSeq(before, Len(before) - Len(w), Len(before)))
                    - Len(before[Len(before) - Len(w)]) >= n
    /\ LET w == FirstChars(after, n)
       IN  Len(w) < Len(after) =>
              \/ after[Len(w) + 1] = FILL
              \/ LeadLen(SubSeq(after, 1, Len(w) + 1)) - Len(after[Len(w) + 1]) >= n

----------------------------------------------------------------------------
(* Paragraphs and documents *)

Para(text, runs, cell, id) == [text |-> text, runs |-> runs, cell |-> cell, id |-> id]

\* the body paragraphs a parsed file holds for the given texts
MkDoc(texts) ==
    [i \in 1..Len(texts) |-> Para(texts[i], IF texts[i] = <<>> THEN 0 ELSE 1, 0, i)]

\* the paragraphs in document order: body paragraphs, then table cells'
iter_paragraphs(doc) == doc

RECURSIVE JoinNL(_)
JoinNL(texts) ==
    IF texts = <<>> THEN <<>>
    ELSE IF Len(texts) = 1 THEN texts[1]
    ELSE texts[1] \o <<NL>> \o JoinNL(Tail(texts))

get_full_text(doc) ==
    LET flat == iter_paragraphs(doc)
    IN  JoinNL([i \in 1..Len(flat) |-> flat[i].text])

----------------------------------------------------------------------------
(* Named placeholder detector *)

\* BRACKETED_NAMED on a token: group(1) with its whitespace collapsed
NamedMatches(tok) == {k \in NamedInner : tok \in {Bracket(k), PadBracket(k)}}

\* key.strip("_") and not set(key) <= set("_")
NamedKeep(key) == key \notin {"", "_", "__"}

\* the named inner texts in the order of sorted(..., key=lambda s: s.lower())
LowerOrder == <<"A", "COMPANY", "Max">>

detect_named_placeholders(doc_text) ==
    LET names == {k \in NamedInner :
                    NamedKeep(k) /\ \E i \in 1..Len(doc_text) : k \in NamedMatches(doc_text[i])}
    IN  SelectSeq(LowerOrder, LAMBDA k : k \in names)

----------------------------------------------------------------------------
(* Underscore placeholder detector *)

\* BRACKETED_UNDERSCORES on a token
IsUnderscore(tok) == tok = UNDER

\* re.search(r"\(\s*the\s+[“\"]([^”\"]+)", ...) on a token: the set of group(1)
TheMatches(tok) == {x \in QuoteInner : tok = TheDef(x)}

\* QUOTED_TERM on a token: the set of group(1)
QuotedMatches(tok) == {x \in QuoteInner : tok \in {Quote(x), TheDef(x)}}

\* the words of two letters or more the model's tokens are built from
WordUniverse ==
    {"party", "of", "COMPANY", "Company", "INVESTOR", "Investors", "Max",
     "By", "by", "Name", "Title", "Address", "Email"}

\* re.findall(r"[A-Za-z][A-Za-z\-]+", tok)
WordsOf(tok) ==
    IF \E w \in WordUniverse : tok \in {w, w \o ":", Bracket(w), PadBracket(w), Quote(w)}
    THEN <<CHOOSE w \in WordUniverse : tok \in {w, w \o ":", Bracket(w), PadBracket(w), Quote(w)}>>
    ELSE IF tok = TheDef("Max") \/ tok = TheDef("Max (2)") THEN <<"the", "Max">>
    ELSE IF tok = Quote("Max (2)") THEN <<"Max">>
    ELSE IF tok = TheDef(" ") THEN <<"the">>
    ELSE <<>>

RECURSIVE FindAllWords(_)
FindAllWords(t) == IF t = <<>> THEN <<>> ELSE WordsOf(Head(t)) \o FindAllWords(Tail(t))

RECURSIVE JoinSpace(_)
\* " ".join(words)
JoinSpace(ws) ==
    IF ws = <<>> THEN ""
    ELSE IF Len(ws) = 1 THEN ws[1]
    ELSE ws[1] \o " " \o JoinSpace(Tail(ws))

\* s[-n:] of a list
LastN(s, n) == IF Len(s) <= n THEN s ELSE SubSeq(s, Len(s) - n + 1, Len(s))

\* the place of the first match of a search, hits[i] being the groups the
\* i-th token matches with; 0 when there is none
FirstMatch(hits) ==
    IF \E i \in 1..Len(hits) : hits[i] # {}
    THEN CHOOSE i \in 1..Len(hits) : hits[i] # {} /\ \A j \in 1..(i - 1) : hits[j] = {}
    ELSE 0

\* The label a match gets from its context; "" stands for both None and "".
label_from_context(before, after) ==
    LET a  == FirstMatch([i \in 1..Len(after) |-> TheMatches(after[i])])
        b120 == LastChars(before, 120)
        q  == FirstMatch([i \in 1..Len(b120) |-> QuotedMatches(b120[i])])
        tokens == FindAllWords(LastChars(before, 60))
        guess == JoinSpace(LastN(tokens, 3))
    IN  IF a # 0 THEN StripStr(CHOOSE x \in TheMatches(after[a]) : TRUE)
        ELSE IF q # 0 THEN StripStr(CHOOSE x \in QuotedMatches(b120[q]) : TRUE)
        ELSE IF tokens # <<>> /\ Len(guess) >= 3 THEN guess
        ELSE ""

RECURSIVE SuffixUntilUnique(_, _, _)
\* the while loop of lines 67-69, entered with label in res
SuffixUntilUnique(base, k, res) ==
    LET label == base \o " (" \o ToString(k) \o ")"
    IN  IF InSeq(label, res) THEN SuffixUntilUnique(base, k + 1, res) ELSE label

\* ResolveCollision without its loop: the suffix (2) whatever is emitted
ResolveCollisionOnce(label, res) ==
    IF InSeq(label, res) THEN label \o " (2)" ELSE label

\* lines 65-69: the label made unique among the labels emitted so far
ResolveCollision(label, res) ==
    IF InSeq(label, res) THEN SuffixUntilUnique(label, 2, res) ELSE label

\* lines 59-62: the context windows of the match at token i, and its label
ContextLabel(doc_text, i) ==
    LET before == LastChars(SubSeq(doc_text, 1, i - 1), 160)
        after  == FirstChars(SubSeq(doc_text, i + 1, Len(doc_text)), 160)
    IN  label_from_context(before, after)

RECURSIVE UnderscoreLoop(_, _, _)
\* the for loop of lines 58-70 from token i on
UnderscoreLoop(doc_text, i, res) ==
    IF i > Len(doc_text) THEN res
    ELSE IF ~IsUnderscore(doc_text[i]) THEN UnderscoreLoop(doc_text, i + 1, res)
    ELSE LET ctx   == ContextLabel(doc_text, i)
             label == IF ctx = "" THEN "Blank " \o ToString(Len(res) + 1) ELSE ctx
         IN  UnderscoreLoop(doc_text, i + 1, Append(res, ResolveCollision(label, res)))

detect_underscore_placeholders_with_context(doc_text) == UnderscoreLoop(doc_text, 1, <<>>)

\* every context window of every match of the text cuts no token but FILL
WellWindowed(doc_text) ==
    \A i \in 1..Len(doc_text) : IsUnderscore(doc_text[i]) =>
        \A n \in {60, 120, 160} :
            CutsOnlyFill(SubSeq(doc_text, 1, i - 1), SubSeq(doc_text, i + 1, Len(doc_text)), n)

----------------------------------------------------------------------------
(* Signature key detector *)

Fields == {"By", "Name", "Title", "Address", "Email"}

\* the spellings of a field name re.IGNORECASE accepts, among the model's
CaseVariants(f) ==
    CASE f = "By" -> {"By", "by", "BY"}
      [] f = "Name" -> {"Name", "name", "NAME"}
      [] f = "Title" -> {"Title", "title", "TITLE"}
      [] f = "Address" -> {"Address", "address", "ADDRESS"}
      [] f = "Email" -> {"Email", "email", "EMAIL"}

\* re.match(r"^(By|Name|Title|Address|Email):\s*$", t, re.IGNORECASE) on a
\* stripped text: the set of group(1).capitalize()
LabelMatches(t) ==
    {f \in Fields : Len(t) = 1 /\ \E v \in CaseVariants(f) : t[1] = v \o ":"}

\* the tokens whose upper() is "[COMPANY]" or "COMPANY"
CompanySpellings == {"[COMPANY]", "COMPANY", "[Company]", "Company", "company"}

\* the tokens whose upper() starts with "INVESTOR"
InvestorSpellings == {"INVESTOR", "Investor", "investor", "INVESTORS", "Investors"}

\* t.upper().strip(":") in ("[COMPANY]", "COMPANY"), on a stripped text
IsCompanyMarker(t) ==
    Len(t) = 1 /\ \E s \in CompanySpellings : \E p, q \in {"", ":"} : t[1] = p \o s \o q

\* t.upper().strip(":").startswith("INVESTOR"), on a stripped text
IsInvestorMarker(t) ==
    t # <<>> /\ \E s \in InvestorSpellings : \E p, q \in {"", ":"} : t[1] = p \o s \o q

RECURSIVE SignatureLoopReset(_, _, _, _)
\* SignatureLoop forgetting the party at a paragraph that is neither a marker
\* nor a label
SignatureLoopReset(flat, i, party, keys) ==
    IF i > Len(flat) THEN keys
    ELSE LET t == Strip(flat[i].text)
             m == LabelMatches(t)
         IN  IF IsCompanyMarker(t) THEN SignatureLoopReset(flat, i + 1, "Company", keys)
             ELSE IF IsInvestorMarker(t) THEN SignatureLoopReset(flat, i + 1, "Investor", keys)
             ELSE IF m # {} /\ party # ""
                  THEN LET key == party \o " " \o (CHOOSE f \in m : TRUE)
                       IN  SignatureLoopReset(flat, i + 1, party,
                                              IF InSeq(key, keys) THEN keys ELSE Append(keys, key))
                  ELSE SignatureLoopReset(flat, i + 1, IF m = {} THEN "" ELSE party, keys)

RECURSIVE SignatureLoop(_, _, _, _)
\* the for loop of lines 76-88 from paragraph i on; party "" is None
SignatureLoop(flat, i, party, keys) ==
    IF i > Len(flat) THEN keys
    ELSE LET t == Strip(flat[i].text)
             m == LabelMatches(t)
         IN  IF IsCompanyMarker(t) THEN SignatureLoop(flat, i + 1, "Company", keys)
             ELSE IF IsInvestorMarker(t) THEN SignatureLoop(flat, i + 1, "Investor", keys)
             ELSE IF m # {} /\ party # ""
                  THEN LET key == party \o " " \o (CHOOSE f \in m : TRUE)
                       IN  SignatureLoop(flat, i + 1, party,
                                         IF InSeq(key, keys) THEN keys ELSE Append(keys, key))
                  ELSE SignatureLoop(flat, i + 1, party, keys)

detect_signature_keys(doc) == SignatureLoop(iter_paragraphs(doc), 1, "", <<>>)

----------------------------------------------------------------------------
(* Key merge and session creation *)

RECURSIVE MergeLoop(_, _)
MergeLoop(items, out) ==
    IF items = <<>> THEN out
    ELSE MergeLoop(Tail(items), IF InSeq(Head(items), out) THEN out ELSE Append(out, Head(items)))

merge_unique(lists) == MergeLoop(Flatten(lists), <<>>)

\* the empty dict
EmptyMap == [k \in {} |-> <<>>]

build_sessions_for_doc(doc) ==
    LET txt        == get_full_text(doc)
        named      == detect_named_placeholders(txt)
        underscore == detect_underscore_placeholders_with_context(txt)
        sig_keys   == detect_signature_keys(doc)
    IN  [original_doc |-> doc,
         named_keys |-> named,
         underscore_keys |-> underscore,
         signature_keys |-> sig_keys,
         all_keys |-> merge_unique(<<named, underscore, sig_keys>>),
         answers |-> EmptyMap]

----------------------------------------------------------------------------
(* Replacement engine *)

\* the paragraphs the signature pass looks back over (range(i-1, max(-1, i-12), -1))
SigWindow == 11

\* what a replacement puts in the place of a token: an empty string leaves
\* the empty token, so that the spaces around it stay
Splice(val) == IF val = <<>> THEN <<"">> ELSE val

\* the one token sequence for the empty string
Norm(text) == IF text = <<"">> THEN <<>> ELSE text

RECURSIVE ReplaceAll(_, _, _)
\* str.replace(needle, val), the needle being one token
ReplaceAll(text, needle, val) ==
    IF text = <<>> THEN <<>>
    ELSE (IF Head(text) = needle THEN Splice(val) ELSE <<Head(text)>>)
            \o ReplaceAll(Tail(text), needle, val)

RECURSIVE NamedReplacements(_, _)
\* lines 121-125: the (needle, value) pairs in the dict's insertion order
NamedReplacements(named_keys, answers) ==
    IF named_keys = <<>> THEN <<>>
    ELSE LET key == Head(named_keys)
         IN  (IF key \in DOMAIN answers
              THEN << <<Bracket(key), answers[key]>>, <<PadBracket(key), answers[key]>> >>
              ELSE <<>>) \o NamedReplacements(Tail(named_keys), answers)

RECURSIVE ApplyNamed(_, _)
\* lines 132-134
ApplyNamed(text, repls) ==
    IF repls = <<>> THEN text
    ELSE ApplyNamed(ReplaceAll(text, Head(repls)[1], Head(repls)[2]), Tail(repls))

RECURSIVE sequential_replace_underscores(_, _)
\* BRACKETED_UNDERSCORES.sub with repl popping the shared list: the new text
\* and what is left of the list
sequential_replace_underscores(text, underscore_values) ==
    IF text = <<>> THEN [text |-> <<>>, values |-> underscore_values]
    ELSE IF IsUnderscore(Head(text))
    THEN LET val  == IF underscore_values # <<>> THEN Head(underscore_values) ELSE <<>>
             left == IF underscore_values # <<>> THEN Tail(underscore_values) ELSE <<>>
             rest == sequential_replace_underscores(Tail(text), left)
         IN  [text |-> Splice(val) \o rest.text, values |-> rest.values]
    ELSE LET rest == sequential_replace_underscores(Tail(text), underscore_values)
         IN  [text |-> <<Head(text)>> \o rest.text, values |-> rest.values]

\* lines 138-143 and 169-174: the paragraph with all its runs replaced by one
SetSingleRun(p, text) == [p EXCEPT !.text = text, !.runs = 1]

RECURSIVE SubstitutionLoop(_, _, _, _)
\* the for loop of lines 129-143 from paragraph i on
SubstitutionLoop(doc, i, repls, under_values) ==
    IF i > Len(doc) THEN doc
    ELSE LET original == doc[i].text
             named    == ApplyNamed(original, repls)
             hasUnder == \E k \in 1..Len(named) : IsUnderscore(named[k])
             sub      == IF hasUnder THEN sequential_replace_underscores(named, under_values)
                         ELSE [text |-> named, values |-> under_values]
             new_text == Norm(sub.text)
         IN  SubstitutionLoop(
                 IF new_text # original THEN [doc EXCEPT ![i] = SetSingleRun(@, new_text)] ELSE doc,
                 i + 1, repls, sub.values)

RECURSIVE SplitNL(_, _)
\* the pieces of a text between its line breaks, cur being the piece begun
SplitNL(text, cur) ==
    IF text = <<>> THEN <<cur>>
    ELSE IF Head(text) = NL THEN <<cur>> \o SplitNL(Tail(text), <<>>)
    ELSE SplitNL(Tail(text), Append(cur, Head(text)))

\* str.splitlines(): no last empty line after a final line break, none for ""
SplitLines(value) ==
    LET pieces == SplitNL(value, <<>>)
    IN  IF pieces[Len(pieces)] = <<>> THEN SubSeq(pieces, 1, Len(pieces) - 1) ELSE pieces

\* the place in the document of the paragraph object flat[i]
PosOf(doc, i) == CHOOSE q \in 1..Len(doc) : doc[q].id = i

RECURSIVE ScanParty(_, _, _)
\* lines 151-157: the nearest marker from flat[j] back to flat[lo]; "" is None
ScanParty(doc, j, lo) ==
    IF j < lo THEN ""
    ELSE LET tj == Strip(doc[PosOf(doc, j)].text)
         IN  IF IsCompanyMarker(tj) THEN "Company"
             ELSE IF IsInvestorMarker(tj) THEN "Investor"
             ELSE ScanParty(doc, j - 1, lo)

\* lines 178-185: one new one-run paragraph per line, after position q
InsertAfter(doc, q, lines) ==
    SubSeq(doc, 1, q)
        \o [k \in 1..Len(lines) |-> Para(lines[k], 1, doc[q].cell, 0)]
        \o SubSeq(doc, q + 1, Len(doc))

RECURSIVE SignatureFillLoop(_, _, _, _)
\* the for loop of lines 147-185 from flat[i] on, flat being the n paragraphs
\* the document held when the pass began
SignatureFillLoop(doc, i, n, answers) ==
    IF i > n THEN doc
    ELSE LET t     == Strip(doc[PosOf(doc, i)].text)
             m     == LabelMatches(t)
             lo    == IF i - SigWindow < 1 THEN 1 ELSE i - SigWindow
             party == ScanParty(doc, i - 1, lo)
             key   == party \o " " \o (CHOOSE f \in m : TRUE)
         IN  IF m = {} \/ party = "" \/ key \notin DOMAIN answers \/ i + 1 > n
             THEN SignatureFillLoop(doc, i + 1, n, answers)
             ELSE LET split == SplitLines(answers[key])
                      lines == IF split = <<>> THEN << <<>> >> ELSE split
                      q     == PosOf(doc, i + 1)
                      first == [doc EXCEPT ![q] = SetSingleRun(@, lines[1])]
                  IN  SignatureFillLoop(InsertAfter(first, q, Tail(lines)), i + 1, n, answers)

RECURSIVE UnderValues(_, _)
\* line 127: [answers.get(k, "") for k in session["underscore_keys"]]
UnderValues(underscore_keys, answers) ==
    IF underscore_keys = <<>> THEN <<>>
    ELSE <<IF Head(underscore_keys) \in DOMAIN answers THEN answers[Head(underscore_keys)] ELSE <<>> >>
            \o UnderValues(Tail(underscore_keys), answers)

replace_doc_content(doc, answers, session) ==
    LET repls == NamedReplacements(session.named_keys, answers)
        under_values == UnderValues(session.underscore_keys, answers)
        substituted == SubstitutionLoop(iter_paragraphs(doc), 1, repls, under_values)
    IN  SignatureFillLoop(substituted, 1, Len(substituted), answers)

\* html escaping of a token (lines 192)
Escape(tok) ==
    CASE tok = "&" -> "&amp;"
      [] tok = "<" -> "&lt;"
      [] tok = ">" -> "&gt;"
      [] OTHER -> tok

\* one <p> per paragraph: its escaped text, or &nbsp; for an empty one
make_preview_html(doc) ==
    LET flat == iter_paragraphs(doc)
    IN  [i \in 1..Len(flat) |->
            IF flat[i].text = <<>> THEN <<"&nbsp;">>
            ELSE [k \in 1..Len(flat[i].text) |-> Escape(flat[i].text[k])]]

----------------------------------------------------------------------------
(* The session store and what the handlers compute *)

Sids == 1..MaxSessions

\* the session ids a request may carry: 0 is an id no session has
ReqSids == 0..MaxSessions

\* the documents the model uploads
ServerDocs ==
    { MkDoc(<< <<Quote("Max"), UNDER, "[Max]">>, <<"COMPANY">>, <<"By:">>, <<>> >>),
      [MkDoc(<< <<"INVESTOR">>, <<"Name:">>, <<>> >>) EXCEPT ![3].cell = 1] }

\* the files an upload request may carry
Uploads ==
    {[kind |-> k, doc |-> <<>>] : k \in {"missing", "badext", "corrupt"}}
        \cup {[kind |-> "docx", doc |-> d] : d \in ServerDocs}

\* the JSON values of the "value" member of a submit-answer request
JsonValues ==
    { [kind |-> "str", text |-> <<"K", NL, "D">>],
      [kind |-> "null", text |-> <<>>] }

\* str(value)
Str(v) == IF v.kind = "null" THEN <<"None">> ELSE v.text

\* the "field" members of the model's requests: every key of the uploaded
\* documents and one that is no document's key
ReqFields ==
    UNION {Range(build_sessions_for_doc(d).all_keys) : d \in ServerDocs} \cup {"Nope"}

Error(status, message) == [status |-> status, error |-> message]

\* line 254: the response to a field that is no key of the session
UnknownField(field) == Error(400, "Unknown field '" \o field \o "'")

\* uuid.uuid4(): an id no session has
FreshSid(S) == CHOOSE id \in Sids \ DOMAIN S : \A o \in Sids \ DOMAIN S : id <= o

Meta(sess) ==
    [named_keys |-> sess.named_keys,
     underscore_keys |-> sess.underscore_keys,
     signature_keys |-> sess.signature_keys]

\* dict assignment d[k] = v
DictSet(d, k, v) == [x \in DOMAIN d \cup {k} |-> IF x = k THEN v ELSE d[x]]

\* FieldKnown without its test: every field is taken for a key
FieldKnownAlways(sess, field) == TRUE

\* line 253: field in sess["all_keys"]
FieldKnown(sess, field) == InSeq(field, sess.all_keys)

\* StoreAnswer binding a new dict that holds the one answer
StoreAnswerFresh(sess, field, value) ==
    [sess EXCEPT !.answers = [x \in {field} |-> Str(value)]]

\* line 255: the session after sess["answers"][field] = str(value)
StoreAnswer(sess, field, value) ==
    [sess EXCEPT !.answers = DictSet(@, field, Str(value))]

\* line 256: [p for p in sess["all_keys"] if p not in sess["answers"]]
Remaining(sess) == SelectSeq(sess.all_keys, LAMBDA p : p \notin DOMAIN sess.answers)

\* line 257: the response to an accepted answer; next <<>> is null
AnswerBody(remaining) ==
    [status |-> 200, saved |-> TRUE,
     next |-> IF remaining # <<>> THEN <<remaining[1]>> ELSE <<>>,
     remaining_count |-> Len(remaining)]

\* post_answer_result with the store moved before the test of the field
post_answer_store_first(S, session_id, field, value) ==
    IF session_id \notin DOMAIN S
    THEN [S |-> S, resp |-> Error(404, "Invalid session")]
    ELSE LET stored == [S EXCEPT ![session_id] = StoreAnswer(@, field, value)]
         IN  IF ~FieldKnown(S[session_id], field)
             THEN [S |-> stored, resp |-> UnknownField(field)]
             ELSE [S |-> stored, resp |-> AnswerBody(Remaining(stored[session_id]))]

\* post_answer_result with the remaining keys computed before the store
post_answer_stale_remaining(S, session_id, field, value) ==
    IF session_id \notin DOMAIN S
    THEN [S |-> S, resp |-> Error(404, "Invalid session")]
    ELSE IF ~FieldKnown(S[session_id], field)
    THEN [S |-> S, resp |-> UnknownField(field)]
    ELSE [S |-> [S EXCEPT ![session_id] = StoreAnswer(@, field, value)],
          resp |-> AnswerBody(Remaining(S[session_id]))]

\* lines 250-257: the store and the response post_answer leaves
post_answer_result(S, session_id, field, value) ==
    IF session_id \notin DOMAIN S
    THEN [S |-> S, resp |-> Error(404, "Invalid session")]
    ELSE IF ~FieldKnown(S[session_id], field)
    THEN [S |-> S, resp |-> UnknownField(field)]
    ELSE LET stored == [S EXCEPT ![session_id] = StoreAnswer(@, field, value)]
         IN  [S |-> stored, resp |-> AnswerBody(Remaining(stored[session_id]))]

\* RenderSession filling the session's stored document in place
RenderSessionInPlace(sess) ==
    LET doc == replace_doc_content(sess.original_doc, sess.answers, sess)
    IN  [doc |-> doc, sess |-> [sess EXCEPT !.original_doc = doc]]

\* lines 265-266 and 276-277: the filled document of a freshly parsed copy of
\* the stored file, and the session the handler leaves behind
RenderSession(sess) ==
    [doc |-> replace_doc_content(sess.original_doc, sess.answers, sess), sess |-> sess]

----------------------------------------------------------------------------
(* The handlers, each request handled at once *)

upload(file) ==
    /\ IF file.kind = "missing" THEN
           /\ resp' = Error(400, "Missing file")
           /\ UNCHANGED <<SESSIONS, created>>
       ELSE IF file.kind = "badext" THEN
           /\ resp' = Error(400, "Only .docx is supported")
           /\ UNCHANGED <<SESSIONS, created>>
       ELSE IF file.kind = "corrupt" THEN
           /\ resp' = Error(400, "Failed to read .docx: ")
           /\ UNCHANGED <<SESSIONS, created>>
       ELSE
           /\ DOMAIN SESSIONS # Sids
           /\ LET sess == build_sessions_for_doc(file.doc)
                  session_id == FreshSid(SESSIONS)
              IN  /\ SESSIONS' = [x \in DOMAIN SESSIONS \cup {session_id} |->
                                    IF x = session_id THEN sess ELSE SESSIONS[x]]
                  /\ created' = [x \in DOMAIN created \cup {session_id} |->
                                    IF x = session_id THEN sess.all_keys ELSE created[x]]
                  /\ resp' = [status |-> 200, session_id |-> session_id,
                              placeholders |-> sess.all_keys, meta |-> Meta(sess)]
    /\ UNCHANGED <<threads, job>>

\* "answered" is the set of the answered keys: the order of the dict is not modelled
get_placeholders(session_id) ==
    /\ resp' = IF session_id \notin DOMAIN SESSIONS THEN Error(404, "Invalid session")
               ELSE LET sess == SESSIONS[session_id]
                    IN  [status |-> 200, placeholders |-> sess.all_keys,
                         answered |-> DOMAIN sess.answers, meta |-> Meta(sess)]
    /\ UNCHANGED <<SESSIONS, created, threads, job>>

post_answer(session_id, field, value) ==
    LET r == post_answer_result(SESSIONS, session_id, field, value)
    IN  /\ resp' = r.resp
        /\ SESSIONS' = r.S
        /\ UNCHANGED <<created, threads, job>>

PreviewBody(doc) == [status |-> 200, html |-> make_preview_html(doc)]

DownloadBody(doc) == [status |-> 200, download_name |-> "completed_document.docx", docx |-> doc]

preview(session_id) ==
    /\ IF session_id \notin DOMAIN SESSIONS
       THEN resp' = Error(404, "Invalid session") /\ UNCHANGED SESSIONS
       ELSE LET r == RenderSession(SESSIONS[session_id])
            IN  /\ resp' = PreviewBody(r.doc)
                /\ SESSIONS' = [SESSIONS EXCEPT ![session_id] = r.sess]
    /\ UNCHANGED <<created, threads, job>>

download(session_id) ==
    /\ IF session_id \notin DOMAIN SESSIONS
       THEN resp' = Error(404, "Invalid session") /\ UNCHANGED SESSIONS
       ELSE LET r == RenderSession(SESSIONS[session_id])
            IN  /\ resp' = DownloadBody(r.doc)
                /\ SESSIONS' = [SESSIONS EXCEPT ![session_id] = r.sess]
    /\ UNCHANGED <<created, threads, job>>

NoThreads == [t \in {} |-> 0]

NoJob == [phase |-> "none"]

Init ==
    /\ SESSIONS = [x \in {} |-> 0]
    /\ created = [x \in {} |-> 0]
    /\ resp = [status |-> 0]
    /\ threads = NoThreads
    /\ job = NoJob

Next ==
    \/ \E file \in Uploads : upload(file)
    \/ \E session_id \in ReqSids : get_placeholders(session_id)
    \/ \E session_id \in ReqSids, field \in ReqFields, value \in JsonValues :
          post_answer(session_id, field, value)
    \/ \E session_id \in ReqSids : preview(session_id)
    \/ \E session_id \in ReqSids : download(session_id)

Spec == Init /\ [][Next]_vars

----------------------------------------------------------------------------
(* Concurrent submit-answer requests.  The server runs each request in a   *)
(* thread of its own and takes no lock; a thread may be preempted between  *)
(* any two accesses to the shared SESSIONS.  Each step below holds one     *)
(* access: the lookup of the session, the membership test on its key list, *)
(* the store into its answers dict (one dict assignment, which the         *)
(* interpreter does not interleave), each test of the scan for the         *)
(* remaining keys.                                                         *)

Threads == {1, 2}

Idle ==
    [pc |-> "idle", session_id |-> 0, field |-> "", value |-> [kind |-> "null", text |-> <<>>],
     i |-> 0, remaining |-> <<>>, resp |-> [status |-> 0]]

\* lines 246-252: the request is read and its session looked up
Begin(t, session_id, field, value) ==
    /\ threads[t].pc = "idle"
    /\ threads' = [threads EXCEPT ![t] =
          IF session_id \notin DOMAIN SESSIONS
          THEN [@ EXCEPT !.pc = "done", !.session_id = session_id, !.field = field,
                         !.value = value, !.resp = Error(404, "Invalid session")]
          ELSE [@ EXCEPT !.pc = "check", !.session_id = session_id, !.field = field,
                         !.value = value]]
    /\ UNCHANGED <<SESSIONS, created, resp, job>>

\* lines 253-254
CheckField(t) ==
    /\ threads[t].pc = "check"
    /\ threads' = [threads EXCEPT ![t] =
          IF ~FieldKnown(SESSIONS[threads[t].session_id], threads[t].field)
          THEN [@ EXCEPT !.pc = "done", !.resp = UnknownField(threads[t].field)]
          ELSE [@ EXCEPT !.pc = "store"]]
    /\ UNCHANGED <<SESSIONS, created, resp, job>>

\* line 255
Store(t) ==
    /\ threads[t].pc = "store"
    /\ SESSIONS' = [SESSIONS EXCEPT ![threads[t].session_id] =
                        StoreAnswer(@, threads[t].field, threads[t].value)]
    /\ threads' = [threads EXCEPT ![t] = [@ EXCEPT !.pc = "scan", !.i = 1]]
    /\ UNCHANGED <<created, resp, job>>

\* line 256: one element of the list comprehension
Scan(t) ==
    LET sess == SESSIONS[threads[t].session_id]
        i    == threads[t].i
    IN  /\ threads[t].pc = "scan"
        /\ i <= Len(sess.all_keys)
        /\ threads' = [threads EXCEPT ![t] =
              [@ EXCEPT !.i = i + 1,
                        !.remaining = IF sess.all_keys[i] \notin DOMAIN sess.answers
                                      THEN Append(@, sess.all_keys[i]) ELSE @]]
        /\ UNCHANGED <<SESSIONS, created, resp, job>>

\* line 257
Respond(t) ==
    /\ threads[t].pc = "scan"
    /\ threads[t].i > Len(SESSIONS[threads[t].session_id].all_keys)
    /\ threads' = [threads EXCEPT ![t] =
          [@ EXCEPT !.pc = "done", !.resp = AnswerBody(threads[t].remaining)]]
    /\ UNCHANGED <<SESSIONS, created, resp, job>>

InitConc ==
    /\ SESSIONS = [x \in {} |-> 0]
    /\ created = [x \in {} |-> 0]
    /\ resp = [status |-> 0]
    /\ threads = [t \in Threads |-> Idle]
    /\ job = NoJob

NextConc ==
    \/ \E d \in ServerDocs : upload([kind |-> "docx", doc |-> d])
    \/ \E t \in Threads, session_id \in ReqSids, field \in ReqFields, value \in JsonValues :
          Begin(t, session_id, field, value)
    \/ \E t \in Threads : CheckField(t)
    \/ \E t \in Threads : Store(t)
    \/ \E t \in Threads : Scan(t)
    \/ \E t \in Threads : Respond(t)

SpecConc == InitConc /\ [][NextConc]_vars

----------------------------------------------------------------------------
(* The detectors and the replacement engine applied to one document:       *)
(* job holds the document, the session built from it, and its render.      *)

\* the tokens of the texts the underscore detector is applied to
UnderAlphabet ==
    {UNDER, Quote("Max"), TheDef("Max"), TheDef("Max (2)"), "party", FILL, NL}

\* a text whose first label is the suffixed form of the label of the two
\* matches after it
SkipText == <<UNDER, TheDef("Max (2)"), UNDER, UNDER, TheDef("Max")>>

\* the texts of at most n tokens, and SkipText
UnderTexts(n) ==
    {t \in SeqsUpTo(UnderAlphabet, n) : WellWindowed(t)} \cup {SkipText}

\* the document whose paragraphs are the lines of a text
DocOfText(t) == MkDoc(SplitNL(t, <<>>))

\* the texts of the paragraphs the signature detector is applied to
SigParas ==
    {<<"[COMPANY]">>, <<"INVESTOR", "party">>, <<"By:">>, <<"by:">>, <<"By">>,
     <<"Name:">>, <<"party">>}

\* the documents of texts of at most n tokens and those of at most m paragraphs
DetectDocs(n, m) ==
    {DocOfText(t) : t \in UnderTexts(n)} \cup {MkDoc(ps) : ps \in SeqsUpTo(SigParas, m)}

NoSession == [all_keys |-> <<>>]

JobInput(doc) == [phase |-> "input", doc |-> doc, sess |-> NoSession, out |-> <<>>]

\* build_sessions_for_doc applied to the document of the job
Build ==
    /\ job.phase = "input"
    /\ job' = [job EXCEPT !.phase = "built", !.sess = build_sessions_for_doc(job.doc)]
    /\ UNCHANGED <<SESSIONS, created, resp, threads>>

InitDetect ==
    /\ SESSIONS = [x \in {} |-> 0]
    /\ created = [x \in {} |-> 0]
    /\ resp = [status |-> 0]
    /\ threads = NoThreads
    /\ job \in {JobInput(d) : d \in DetectDocs(MaxToks, MaxSigParas)}

NextDetect == Build

SpecDetect == InitDetect /\ [][NextDetect]_vars

\* the texts of the paragraphs the replacement engine is applied to
RenderParas ==
    {<<"[COMPANY]">>, <<"By:">>, <<"Name:">>, <<"[A]">>, <<UNDER>>, <<>>}

\* the documents of at most n paragraphs
RenderDocs(n) == {MkDoc(ps) : ps \in SeqsUpTo(RenderParas, n)}

\* the values answered: one line, and two lines
RenderValues ==
    { [kind |-> "str", text |-> <<"J">>],
      [kind |-> "str", text |-> <<"K", NL, "D">>] }

\* an answer stored for a key of the session of the job (line 255)
Answer(field, value) ==
    /\ job.phase = "built"
    /\ FieldKnown(job.sess, field)
    /\ job' = [job EXCEPT !.sess = StoreAnswer(@, field, value)]
    /\ UNCHANGED <<SESSIONS, created, resp, threads>>

\* the render of the session of the job (lines 265-266, 276-277)
Render ==
    /\ job.phase = "built"
    /\ job' = [job EXCEPT !.phase = "rendered", !.out = RenderSession(job.sess).doc]
    /\ UNCHANGED <<SESSIONS, created, resp, threads>>

InitRender ==
    /\ SESSIONS = [x \in {} |-> 0]
    /\ created = [x \in {} |-> 0]
    /\ resp = [status |-> 0]
    /\ threads = NoThreads
    /\ job \in {JobInput(d) : d \in RenderDocs(MaxRenderParas)}

NextRender ==
    \/ Build
    \/ \E field \in Range(job.sess.all_keys), value \in RenderValues : Answer(field, value)
    \/ Render

SpecRender == InitRender /\ [][NextRender]_vars

----------------------------------------------------------------------------
(* Properties of the session store (specification Spec) *)

\* the keys of a session no answer is stored for
Unanswered(sess) == {k \in Range(sess.all_keys) : k \notin DOMAIN sess.answers}

\* the place a key first has in a list
FirstIndex(k, s) == CHOOSE i \in 1..Len(s) : s[i] = k /\ \A j \in 1..(i - 1) : s[j] # k

\* the texts of the paragraphs of a document, in order
Texts(doc) == [i \in 1..Len(doc) |-> doc[i].text]

\* the paragraph texts a render of the session produces
RenderTexts(sess) == Texts(RenderSession(sess).doc)

\* C1: in every reachable state, every key of every session's answers map is
\* an element of that session's merged key list, and the merged key list is
\* the list computed when the session was created.
C1_AnswersWithinAllKeys ==
    \A sid \in DOMAIN SESSIONS :
        /\ DOMAIN SESSIONS[sid].answers \subseteq Range(SESSIONS[sid].all_keys)
        /\ SESSIONS[sid].all_keys = created[sid]

\* C1's case: two sessions exist and one of them has an answer stored
C1_Witness ==
    /\ Cardinality(DOMAIN SESSIONS) >= 2
    /\ \E sid \in DOMAIN SESSIONS : DOMAIN SESSIONS[sid].answers # {}

\* C2: a submit-answer request whose session id is unknown, or whose key is
\* not in the session's merged key list, is answered by an error (404 or 400)
\* and leaves every session, its answers map included, exactly as it was; no
\* value is stored under the rejected key.
C2_RejectedSubmitStoresNothing ==
    [][\A sid \in ReqSids, field \in ReqFields, value \in JsonValues :
          (/\ \/ sid \notin DOMAIN SESSIONS
              \/ field \notin Range(SESSIONS[sid].all_keys)
           /\ post_answer(sid, field, value))
          => /\ resp'.status = (IF sid \in DOMAIN SESSIONS THEN 400 ELSE 404)
             /\ "error" \in DOMAIN resp'
             /\ DOMAIN SESSIONS' = DOMAIN SESSIONS
             /\ \A s \in DOMAIN SESSIONS : SESSIONS'[s].answers = SESSIONS[s].answers
             /\ sid \in DOMAIN SESSIONS => field \notin DOMAIN SESSIONS'[sid].answers]_vars

\* C2's case: a submit was rejected for its key while a session holds answers
C2_Witness ==
    /\ resp = UnknownField("Nope")
    /\ \E sid \in DOMAIN SESSIONS : DOMAIN SESSIONS[sid].answers # {}

\* C4: a preview or download request leaves every session (answers, key lists
\* and stored original document) as it was, and a render of the session it
\* leaves has the paragraphs, in number and text, of the render it returned;
\* a session changes in no step that leaves its answers as they were, so any
\* two renders with no accepted answer between them are renders of the same
\* session record.
C4_RenderHasNoSideEffect ==
    [][/\ \A sid \in ReqSids \ DOMAIN SESSIONS :
            (preview(sid) \/ download(sid)) => SESSIONS' = SESSIONS
       /\ \A sid \in DOMAIN SESSIONS :
            /\ ("html" \in DOMAIN resp' /\ preview(sid))
                  => /\ SESSIONS' = SESSIONS
                     /\ resp'.html = make_preview_html(RenderSession(SESSIONS'[sid]).doc)
            /\ ("docx" \in DOMAIN resp' /\ download(sid))
                  => /\ SESSIONS' = SESSIONS
                     /\ Texts(resp'.docx) = RenderTexts(SESSIONS'[sid])
            /\ SESSIONS'[sid].answers = SESSIONS[sid].answers
                  => SESSIONS'[sid] = SESSIONS[sid]]_vars

\* C4's case: a download returned a render that differs from the stored
\* document in its text and in its number of paragraphs
C4_Witness ==
    /\ "docx" \in DOMAIN resp
    /\ \E sid \in DOMAIN SESSIONS :
          /\ Texts(resp.docx) = RenderTexts(SESSIONS[sid])
          /\ Len(resp.docx) > Len(SESSIONS[sid].original_doc)

----------------------------------------------------------------------------
(* Properties of concurrent submits (specification SpecConc) *)

\* the two threads' requests were both accepted, for one session and two keys
BothAccepted(a, b) ==
    /\ threads[a].pc = "done" /\ threads[b].pc = "done"
    /\ threads[a].resp.status = 200 /\ threads[b].resp.status = 200
    /\ threads[a].session_id = threads[b].session_id
    /\ threads[a].field # threads[b].field

\* C3: when two submit-answer requests for the same session and two
\* different valid keys have both been accepted, whatever the order of their
\* steps, the session's answers map holds both keys, each with the value its
\* request submitted.
C3_NoLostUpdate ==
    \A a, b \in DOMAIN threads :
        (a # b /\ BothAccepted(a, b))
        => LET answers == SESSIONS[threads[a].session_id].answers
           IN  /\ threads[a].field \in DOMAIN answers
               /\ threads[b].field \in DOMAIN answers
               /\ answers[threads[a].field] = Str(threads[a].value)
               /\ answers[threads[b].field] = Str(threads[b].value)

\* C3's case: both requests accepted with different values, and one of them
\* scanned for the remaining keys before the other stored
C3_Witness ==
    \E a, b \in DOMAIN threads :
        /\ a # b /\ BothAccepted(a, b)
        /\ threads[a].value # threads[b].value
        /\ threads[a].resp.remaining_count > threads[b].resp.remaining_count

----------------------------------------------------------------------------
(* Properties of the detectors (specification SpecDetect) *)

\* the places of the underscore-bracket matches of a text, in match order
MatchPlaces(txt) ==
    LET places == {i \in 1..Len(txt) : IsUnderscore(txt[i])}
        Before(i) == Cardinality({j \in places : j < i})
    IN  [n \in 1..Cardinality(places) |-> CHOOSE i \in places : Before(i) = n - 1]

Suffixed(base, k) == base \o " (" \o ToString(k) \o ")"

\* C7: the list the underscore detector returns holds exactly one label per
\* underscore-bracket match, in match order, and no label twice; the label of
\* a match is the label inferred for it (from its context, or "Blank n") when
\* no earlier match was given that label, and otherwise that label with the
\* suffix " (k)" for the smallest k >= 2 that no earlier match was given.
C7_UnderscoreLabelsUnique ==
    job.phase = "built" =>
        LET txt    == get_full_text(job.doc)
            labels == job.sess.underscore_keys
            places == MatchPlaces(txt)
        IN  /\ Len(labels) = Len(places)
            /\ \A a, b \in 1..Len(labels) : a # b => labels[a] # labels[b]
            /\ \A n \in 1..Len(labels) :
                  LET ctx     == ContextLabel(txt, places[n])
                      base    == IF ctx = "" THEN "Blank " \o ToString(n) ELSE ctx
                      earlier == {labels[j] : j \in 1..(n - 1)}
                  IN  IF base \notin earlier THEN labels[n] = base
                      ELSE \E k \in 2..(n + 1) :
                              /\ labels[n] = Suffixed(base, k)
                              /\ labels[n] \notin earlier
                              /\ \A o \in 2..(k - 1) : Suffixed(base, o) \in earlier

\* C7's case: the label of the third match collides, the suffix (2) is the
\* label of the first match, and the third match is given the suffix (3)
C7_Witness ==
    /\ job.phase = "built"
    /\ job.sess.underscore_keys = <<"Max (2)", "Max", "Max (3)">>

IsMarker(t) == IsCompanyMarker(t) \/ IsInvestorMarker(t)

PartyOf(t) == IF IsCompanyMarker(t) THEN "Company" ELSE "Investor"

\* a field name with or without a trailing colon, case-insensitive
LabelColonOptional(t) ==
    {f \in Fields : Len(t) = 1 /\ \E v \in CaseVariants(f) : t[1] \in {v, v \o ":"}}

\* the fields a trimmed text is a label of, the colon being needed or not
LabelFields(t, colonNeeded) == IF colonNeeded THEN LabelMatches(t) ELSE LabelColonOptional(t)

\* the key of paragraph i: the party of the last marker before it and its
\* field; "" if the paragraph is a marker, is no label, or has no marker
\* before it
SigKeyAt(flat, i, colonNeeded) ==
    LET t       == Strip(flat[i].text)
        markers == {j \in 1..(i - 1) : IsMarker(Strip(flat[j].text))}
    IN  IF IsMarker(t) \/ LabelFields(t, colonNeeded) = {} \/ markers = {} THEN ""
        ELSE LET last == CHOOSE j \in markers : \A o \in markers : o <= j
             IN  PartyOf(Strip(flat[last].text)) \o " "
                    \o (CHOOSE f \in LabelFields(t, colonNeeded) : TRUE)

\* keys is the list of the keys of the paragraphs, in the order of their
\* first paragraphs, each once
EmitsKeysOf(flat, keys, colonNeeded) ==
    LET First(key) == CHOOSE i \in 1..Len(flat) :
                         /\ SigKeyAt(flat, i, colonNeeded) = key
                         /\ \A j \in 1..(i - 1) : SigKeyAt(flat, j, colonNeeded) # key
    IN  /\ Range(keys) = {SigKeyAt(flat, i, colonNeeded) : i \in 1..Len(flat)} \ {""}
        /\ \A a, b \in 1..Len(keys) : a < b => First(keys[a]) < First(keys[b])

----------------------------------------------------------------------------
(* Properties of the replacement engine (specification SpecRender) *)

RECURSIVE Occurrences(_, _)
\* the number of times a token occurs in a text
Occurrences(text, tok) ==
    IF text = <<>> THEN 0
    ELSE (IF Head(text) = tok THEN 1 ELSE 0) + Occurrences(Tail(text), tok)

RECURSIVE DocOccurrences(_, _)
\* the number of times a token occurs in the paragraphs of a document
DocOccurrences(doc, tok) ==
    IF doc = <<>> THEN 0
    ELSE Occurrences(Head(doc).text, tok) + DocOccurrences(Tail(doc), tok)

\* C5: in a render, a named key with no recorded answer has every occurrence
\* of its bracket text of the original document still in the rendered
\* document, whatever other keys are answered.
C5_UnansweredNamedKept ==
    job.phase = "rendered" =>
        \A key \in Range(job.sess.named_keys) \ DOMAIN job.sess.answers :
            \A tok \in {Bracket(key), PadBracket(key)} :
                DocOccurrences(job.out, tok) >= DocOccurrences(job.doc, tok)

\* the document after the substitution of named and underscore placeholders,
\* the one the signature pass reads its labels and markers from
Substituted(sess) ==
    SubstitutionLoop(iter_paragraphs(sess.original_doc), 1,
                     NamedReplacements(sess.named_keys, sess.answers),
                     UnderValues(sess.underscore_keys, sess.answers))

\* the key of the label paragraph i: the field with the party of the nearest
\* marker among the 11 paragraphs before it; "" when i is no label or has no
\* such marker
FillKeyAt(doc, i) ==
    LET m     == LabelMatches(Strip(doc[i].text))
        party == ScanParty(doc, i - 1, IF i - SigWindow < 1 THEN 1 ELSE i - SigWindow)
    IN  IF m = {} \/ party = "" THEN "" ELSE party \o " " \o (CHOOSE f \in m : TRUE)

\* C6: in a render, for every label paragraph that has a following paragraph
\* and a party marker among the 11 paragraphs before it, and whose key has an
\* answer, the paragraph right after the label holds the first line of the
\* value and is followed by one inserted paragraph per further line, in the
\* value's line order.
C6_SignatureBlockFilled ==
    job.phase = "rendered" =>
        LET sub == Substituted(job.sess)
            out == job.out
        IN  \A i \in 1..(Len(sub) - 1) :
                (FillKeyAt(sub, i) # "" /\ FillKeyAt(sub, i) \in DOMAIN job.sess.answers)
                => LET split == SplitLines(job.sess.answers[FillKeyAt(sub, i)])
                       lines == IF split = <<>> THEN << <<>> >> ELSE split
                       q     == PosOf(out, i) + 1
                   IN  /\ q + Len(lines) - 1 <= Len(out)
                       /\ out[q].text = lines[1]
                       /\ \A k \in 2..Len(lines) :
                             out[q + k - 1].id = 0 /\ out[q + k - 1].text = lines[k]

\* the value the k-th underscore-bracket occurrence is to be replaced by
UnderscoreValue(sess, k) ==
    IF k <= Len(sess.underscore_keys) /\ sess.underscore_keys[k] \in DOMAIN sess.answers
    THEN sess.answers[sess.underscore_keys[k]]
    ELSE <<>>

RECURSIVE FillUnderscores(_, _, _)
\* a text with its underscore-bracket occurrences, the k-th of the document
\* and those after it, replaced by their values
FillUnderscores(text, sess, k) ==
    IF text = <<>> THEN <<>>
    ELSE IF IsUnderscore(Head(text))
    THEN Splice(UnderscoreValue(sess, k)) \o FillUnderscores(Tail(text), sess, k + 1)
    ELSE <<Head(text)>> \o FillUnderscores(Tail(text), sess, k)

\* C9: in a render, the k-th underscore-bracket occurrence of the document is
\* replaced by the answer recorded for the k-th underscore label, or by the
\* empty string when that label has no answer, and no underscore-bracket
\* pattern is left in the rendered text.
C9_UnderscoresFilledInOrder ==
    job.phase = "rendered" =>
        LET doc == job.doc
            out == job.out
        IN  /\ \A i \in 1..Len(doc) :
                  Occurrences(doc[i].text, UNDER) > 0
                  => out[PosOf(out, i)].text =
                        Norm(FillUnderscores(
                                ApplyNamed(doc[i].text,
                                           NamedReplacements(job.sess.named_keys, job.sess.answers)),
                                job.sess,
                                1 + DocOccurrences(SubSeq(doc, 1, i - 1), UNDER)))
            /\ DocOccurrences(out, UNDER) = 0

====
